---- MODULE Spec2Model ----
(***************************************************************************)
(* Model of @tokenring-ai/research: the plugin's install, the research_run *)
(* tool's execute and ResearchService.runResearch, with the model registry,*)
(* the chat client and the agent's output sinks as the environment.        *)
(*                                                                         *)
(* Every invocation keeps the ordered log of the collaborator calls it     *)
(* made (calls) and the way it ended (outcome).  An await in the source is *)
(* a suspension point: the code up to the await is one action and the      *)
(* continuation, resumed with the collaborator's answer, is the next one.  *)
(***************************************************************************)
EXTENDS Integers, Sequences, FiniteSets, TLC

\* Number of tool invocations of a behaviour; they may all be in flight at once.
MaxInv == 2

Invocations == 1..MaxInv

(***************************************************************************)
(* JavaScript values of the arguments: a string, or undefined (a missing   *)
(* field).                                                                 *)
(***************************************************************************)
JsUndefined == [type |-> "undefined", val |-> ""]

JsString(s) == [type |-> "string", val |-> s]

\* `!v`: undefined and the empty string are falsy.
Falsy(v) == v.type = "undefined" \/ v.val = ""

\* `${v}` in a template literal.
Interpolate(v) == IF v.type = "undefined" THEN "undefined" ELSE v.val

\* Inputs of the invocations: missing, empty, plain and with special characters.
Topics == {JsUndefined, JsString(""), JsString("Quantum Computing"),
           JsString("a \"b\" & <c>, d")}

Prompts == {JsUndefined, JsString(""), JsString("latest breakthroughs"),
            JsString("why \\n?")}

\* Configurations handed to install: no research slice, or a researchModel.
ModelIds == {"gemini-2.5-flash-web-search", "sonar-deep-research"}

Configs == {[research |-> JsUndefined]}
             \cup {[research |-> [researchModel |-> m]] : m \in ModelIds}

\* What the environment answers: textChat's [research, response], with usage
\* metadata or without, and error messages.
NoUsage == [present |-> FALSE]

Responses ==
  {[research |-> "R",
    usage |-> [present |-> TRUE, promptTokens |-> 10, completionTokens |-> 5,
               cost |-> "0.001"]],
   [research |-> "Qubits improved.", usage |-> NoUsage]}

RegistryErrors == {"No online client"}

ChatErrors == {"provider error"}

SinkFailures == {"none", "artifactOutput", "outputChatAnalytics"}

\* const name = "research_run"
name == "research_run"

VARIABLES
  installed,        \* install has run
  config,           \* the configuration install was given, or NoConfig
  researchService,  \* the ResearchService added to the app, or NoService
  tools,            \* names of the tools added to the ChatService
  functions,        \* names of the functions registered with the ScriptingService
  entry,            \* entry[i]: "none", or the entry point used, "tool" or "script"
  pc,               \* pc[i]: "idle", "getClient", "textChat" or "done"
  args,             \* args[i]: the {topic, prompt} the invocation was given
  client,           \* client[i]: the chat client getClient resolved with
  calls,            \* calls[i]: the collaborator calls made and how the awaited
                    \* ones settled, in order
  outcome           \* outcome[i]: pending, returned (value) or thrown (error)

vars == <<installed, config, researchService, tools, functions, entry, pc, args,
          client, calls, outcome>>

\* The state of the app: what install and the registration callbacks write.
app == <<installed, config, researchService, tools, functions>>

NoConfig == [research |-> [type |-> "not installed", val |-> ""]]

NoService == [present |-> FALSE]

NoArgs == [topic |-> JsUndefined, prompt |-> JsUndefined]

NoClient == [modelId |-> ""]

Pending == [kind |-> "pending"]

Returned(v) == [kind |-> "returned", value |-> v]

Thrown(msg) == [kind |-> "thrown", error |-> [message |-> msg]]

(***************************************************************************)
(* ResearchService                                                         *)
(***************************************************************************)
\* Mutant: the constructor ignores its argument and keeps a default model.
NewResearchServiceDefault(options) ==
  [present |-> TRUE, options |-> [researchModel |-> "gemini-2.5-flash-web-search"]]

\* constructor(private options: ResearchServiceConfig)
NewResearchService(options) == [present |-> TRUE, options |-> options]

\* Mutant: the identifier is hard-coded instead of read from the options.
LookupModelIdHardcoded(service) == "gemini-2.5-flash-web-search"

\* The identifier runResearch hands to chatModelRegistry.getClient.
LookupModelId(service) == service.options.researchModel

SystemMessage ==
  [role |-> "system",
   content |-> "You are a research assistant, tasked with researching a topic for the user, using web search. "
               \o "The users is going to ask you a question, and you will research that using the web search tool, and return detailed and comprehensive research on the topic."]

\* Mutant: topic and prompt are interpolated in each other's place.
UserContentSwapped(topic, prompt) ==
  "Research the following topic: " \o Interpolate(prompt)
    \o ", focusing on the following question: " \o Interpolate(topic)

UserContent(topic, prompt) ==
  "Research the following topic: " \o Interpolate(topic)
    \o ", focusing on the following question: " \o Interpolate(prompt)

\* The request of aiChatClient.textChat.
ChatRequest(topic, prompt) ==
  [tools |-> {},
   messages |-> <<SystemMessage,
                  [role |-> "user", content |-> UserContent(topic, prompt)]>>]

DispatchMessage(topic, modelId) ==
  "[Research] Dispatching research request for \"" \o Interpolate(topic)
    \o "\" to " \o modelId

SuccessMessage(topic) ==
  "[" \o name \o "] Successfully generated research for \""
    \o Interpolate(topic) \o "\""

\* Mutant: the artifact is declared plain text.
ArtifactPlainText(topic, prompt, research) ==
  [name |-> "Research on " \o Interpolate(topic),
   encoding |-> "text",
   mimeType |-> "text/plain",
   body |-> "Topic: " \o Interpolate(topic) \o "\nPrompt: "
              \o Interpolate(prompt) \o "\n\nResult: " \o research]

Artifact(topic, prompt, research) ==
  [name |-> "Research on " \o Interpolate(topic),
   encoding |-> "text",
   mimeType |-> "text/markdown",
   body |-> "Topic: " \o Interpolate(topic) \o "\nPrompt: "
              \o Interpolate(prompt) \o "\n\nResult: " \o research]

(***************************************************************************)
(* The research_run tool                                                   *)
(***************************************************************************)
\* Mutant: the prompt is checked before the topic.
ValidationErrorPromptFirst(topic, prompt) ==
  IF Falsy(prompt) THEN "[" \o name \o "] Error: Prompt is required"
  ELSE IF Falsy(topic) THEN "[" \o name \o "] Error: Topic is required"
  ELSE ""

\* Mutant: the prompt is not checked.
ValidationErrorTopicOnly(topic, prompt) ==
  IF Falsy(topic) THEN "[" \o name \o "] Error: Topic is required" ELSE ""

\* The message of the validation error execute throws, or "" when it throws none.
ValidationError(topic, prompt) ==
  IF Falsy(topic) THEN "[" \o name \o "] Error: Topic is required"
  ELSE IF Falsy(prompt) THEN "[" \o name \o "] Error: Prompt is required"
  ELSE ""

\* Mutant: the message does not carry the topic.
SuccessResultNoTopic(topic, research) ==
  [status |-> "completed",
   topic |-> topic,
   research |-> research,
   message |-> "Research completed successfully"]

\* The value execute returns once runResearch has returned research.
SuccessResult(topic, research) ==
  [status |-> "completed",
   topic |-> topic,
   research |-> research,
   message |-> "Research completed successfully for topic: " \o Interpolate(topic)]

\* Mutant: the validation error is returned as an error result, not thrown.
OnValidationErrorAsResult(topic, msg) ==
  Returned([status |-> "error", topic |-> "", error |-> msg,
            message |-> "Failed to generate research"])

\* What execute does with a validation error: `throw new Error(...)`.
OnValidationError(topic, msg) == Thrown(msg)

\* Mutant: the error is swallowed and an empty research is returned.
OnRunResearchErrorSwallowed(topic, msg) ==
  Returned([status |-> "completed", topic |-> topic, research |-> "",
            message |-> "Research completed successfully for topic: " \o Interpolate(topic)])

\* What execute does with an error runResearch rejects with: it has no
\* try/catch, the rejection propagates to the caller.
OnRunResearchError(topic, msg) == Thrown(msg)

\* Mutant: the topic is kept in one field shared by all calls, written by the
\* call that started last.
CurrentTopicShared(i) ==
  args[CHOOSE j \in Invocations :
         /\ pc[j] # "idle"
         /\ \A k \in Invocations : pc[k] # "idle" => k <= j].topic

\* Mutant: the scripting function wraps the text in a result object.
ScriptResultAsObject(research) == [status |-> "completed", research |-> research]

\* The scripting function's execute: `return await ...runResearch(...)`, the
\* text itself, a JavaScript string.
ScriptResult(research) == JsString(research)

\* The scripting function's execute has no try/catch either.
ScriptOnError(msg) == Thrown(msg)

\* The topic and prompt parameters of invocation i's runResearch: each call has
\* its own, captured by its continuations.
CurrentTopic(i) == args[i].topic

CurrentPrompt(i) == args[i].prompt

\* How invocation i ends once runResearch has returned research: through the
\* entry point that called it.
CallerOnReturn(i, research) ==
  IF entry[i] = "script"
    THEN Returned(ScriptResult(research))
    ELSE Returned(SuccessResult(CurrentTopic(i), research))

\* How invocation i ends once runResearch has thrown.
CallerOnThrow(i, msg) ==
  IF entry[i] = "script"
    THEN ScriptOnError(msg)
    ELSE OnRunResearchError(CurrentTopic(i), msg)

(***************************************************************************)
(* Actions                                                                 *)
(***************************************************************************)
Init ==
  /\ installed = FALSE
  /\ config = NoConfig
  /\ researchService = NoService
  /\ tools = {}
  /\ functions = {}
  /\ entry = [i \in Invocations |-> "none"]
  /\ pc = [i \in Invocations |-> "idle"]
  /\ args = [i \in Invocations |-> NoArgs]
  /\ client = [i \in Invocations |-> NoClient]
  /\ calls = [i \in Invocations |-> <<>>]
  /\ outcome = [i \in Invocations |-> Pending]

\* Mutant: install adds a ResearchService with a default model when the
\* configuration has no research slice.
InstallWithDefault(cfg) ==
  /\ ~installed
  /\ installed' = TRUE
  /\ config' = cfg
  /\ researchService' =
       IF cfg.research = JsUndefined
         THEN NewResearchService([researchModel |-> "gemini-2.5-flash-web-search"])
         ELSE NewResearchService(cfg.research)
  /\ UNCHANGED <<tools, functions, entry, pc, args, client, calls, outcome>>

\* install(app, config): adds a ResearchService only when config.research is set.
Install(cfg) ==
  /\ ~installed
  /\ installed' = TRUE
  /\ config' = cfg
  /\ researchService' = IF cfg.research = JsUndefined
                          THEN researchService
                          ELSE NewResearchService(cfg.research)
  /\ UNCHANGED <<tools, functions, entry, pc, args, client, calls, outcome>>

\* The callback of app.waitForService(ChatService, ...): chatService.addTools(tools).
AddTools ==
  /\ installed
  /\ name \notin tools
  /\ tools' = tools \cup {name}
  /\ UNCHANGED <<installed, config, researchService, functions, entry, pc, args,
                 client, calls, outcome>>

\* The callback of app.services.waitForItemByType(ScriptingService, ...):
\* scriptingService.registerFunction("research", ...).
RegisterFunction ==
  /\ installed
  /\ "research" \notin functions
  /\ functions' = functions \cup {"research"}
  /\ UNCHANGED <<installed, config, researchService, tools, entry, pc, args,
                 client, calls, outcome>>

\* execute({topic, prompt}, agent) up to its first suspension: the service lookup,
\* the validation, and runResearch up to `await chatModelRegistry.getClient(...)`.
Execute(i, topic, prompt) ==
  /\ name \in tools
  /\ pc[i] = "idle"
  /\ \A j \in Invocations : j < i => pc[j] # "idle"
  /\ args' = [args EXCEPT ![i] = [topic |-> topic, prompt |-> prompt]]
  /\ entry' = [entry EXCEPT ![i] = "tool"]
  /\ IF ~researchService.present
       THEN \* agent.requireServiceByType(ResearchService) throws
            /\ pc' = [pc EXCEPT ![i] = "done"]
            /\ outcome' = [outcome EXCEPT ![i] = Thrown("ResearchService not found")]
            /\ UNCHANGED calls
       ELSE IF ValidationError(topic, prompt) # ""
       THEN /\ pc' = [pc EXCEPT ![i] = "done"]
            /\ outcome' = [outcome EXCEPT ![i] =
                 OnValidationError(topic, ValidationError(topic, prompt))]
            /\ UNCHANGED calls
       ELSE /\ pc' = [pc EXCEPT ![i] = "getClient"]
            /\ calls' = [calls EXCEPT ![i] =
                 Append(@, [call |-> "getClient",
                            modelId |-> LookupModelId(researchService)])]
            /\ UNCHANGED outcome
  /\ UNCHANGED <<app, client>>

\* The scripting function research(topic, prompt) up to its first suspension:
\* the service lookup, then runResearch up to `await ...getClient(...)`.  It
\* validates nothing.
ScriptExecute(i, topic, prompt) ==
  /\ "research" \in functions
  /\ pc[i] = "idle"
  /\ \A j \in Invocations : j < i => pc[j] # "idle"
  /\ args' = [args EXCEPT ![i] = [topic |-> topic, prompt |-> prompt]]
  /\ entry' = [entry EXCEPT ![i] = "script"]
  /\ IF ~researchService.present
       THEN \* this.agent.requireServiceByType(ResearchService) throws
            /\ pc' = [pc EXCEPT ![i] = "done"]
            /\ outcome' = [outcome EXCEPT ![i] = Thrown("ResearchService not found")]
            /\ UNCHANGED calls
       ELSE /\ pc' = [pc EXCEPT ![i] = "getClient"]
            /\ calls' = [calls EXCEPT ![i] =
                 Append(@, [call |-> "getClient",
                            modelId |-> LookupModelId(researchService)])]
            /\ UNCHANGED outcome
  /\ UNCHANGED <<app, client>>

\* Mutant: textChat is called before the dispatch message is emitted.
GetClientResolveChatFirst(i) ==
  /\ pc[i] = "getClient"
  /\ LET c == [modelId |-> calls[i][Len(calls[i])].modelId]
     IN /\ client' = [client EXCEPT ![i] = c]
        /\ calls' = [calls EXCEPT ![i] =
             @ \o <<[call |-> "getClient.resolved", modelId |-> c.modelId],
                    [call |-> "textChat",
                     request |-> ChatRequest(CurrentTopic(i), CurrentPrompt(i))],
                    [call |-> "infoMessage",
                     message |-> DispatchMessage(CurrentTopic(i), c.modelId)]>>]
  /\ pc' = [pc EXCEPT ![i] = "textChat"]
  /\ UNCHANGED <<app, entry, args, outcome>>

\* getClient resolved with a client: the dispatch message, then textChat is called.
GetClientResolve(i) ==
  /\ pc[i] = "getClient"
  /\ LET c == [modelId |-> calls[i][Len(calls[i])].modelId]
     IN /\ client' = [client EXCEPT ![i] = c]
        /\ calls' = [calls EXCEPT ![i] =
             @ \o <<[call |-> "getClient.resolved", modelId |-> c.modelId],
                    [call |-> "infoMessage",
                     message |-> DispatchMessage(CurrentTopic(i), c.modelId)],
                    [call |-> "textChat",
                     request |-> ChatRequest(CurrentTopic(i), CurrentPrompt(i))]>>]
  /\ pc' = [pc EXCEPT ![i] = "textChat"]
  /\ UNCHANGED <<app, entry, args, outcome>>

\* Mutant: the handler gives up on a pending lookup by itself (a timeout).
GetClientTimeout(i, msg) ==
  /\ pc[i] = "getClient"
  /\ pc' = [pc EXCEPT ![i] = "done"]
  /\ outcome' = [outcome EXCEPT ![i] = CallerOnThrow(i, "timeout")]
  /\ UNCHANGED <<app, entry, args, client, calls>>

\* getClient rejected (no online client for the identifier).
GetClientReject(i, msg) ==
  /\ pc[i] = "getClient"
  /\ pc' = [pc EXCEPT ![i] = "done"]
  /\ calls' = [calls EXCEPT ![i] = Append(@, [call |-> "getClient.rejected", message |-> msg])]
  /\ outcome' = [outcome EXCEPT ![i] = CallerOnThrow(i, msg)]
  /\ UNCHANGED <<app, entry, args, client>>

\* textChat resolved with [research, response]: the success message, the artifact,
\* the analytics, and execute's return.  A sink that throws ends the invocation.
TextChatResolve(i, research, usage, failing) ==
  /\ pc[i] = "textChat"
  /\ LET info == [call |-> "infoMessage", message |-> SuccessMessage(CurrentTopic(i))]
         art == [call |-> "artifactOutput",
                 artifact |-> Artifact(CurrentTopic(i), CurrentPrompt(i), research),
                 threw |-> failing = "artifactOutput"]
         ana == [call |-> "outputChatAnalytics", usage |-> usage, name |-> name,
                 threw |-> failing = "outputChatAnalytics"]
         resolved == [call |-> "textChat.resolved", research |-> research, usage |-> usage]
     IN /\ calls' = [calls EXCEPT ![i] =
             @ \o <<resolved, info, art>>
               \o (IF failing = "artifactOutput" THEN <<>> ELSE <<ana>>)]
        /\ outcome' = [outcome EXCEPT ![i] =
             IF failing = "none"
               THEN CallerOnReturn(i, research)
               ELSE CallerOnThrow(i, failing \o " failed")]
  /\ pc' = [pc EXCEPT ![i] = "done"]
  /\ UNCHANGED <<app, entry, args, client>>

\* Mutant: a rejected textChat is attempted again.
TextChatRejectRetry(i, msg) ==
  /\ pc[i] = "textChat"
  /\ calls' = [calls EXCEPT ![i] =
       @ \o <<[call |-> "textChat.rejected", message |-> msg],
              [call |-> "textChat",
               request |-> ChatRequest(CurrentTopic(i), CurrentPrompt(i))]>>]
  /\ UNCHANGED <<app, entry, pc, args, client, outcome>>

\* textChat rejected (network or provider error).
TextChatReject(i, msg) ==
  /\ pc[i] = "textChat"
  /\ pc' = [pc EXCEPT ![i] = "done"]
  /\ calls' = [calls EXCEPT ![i] = Append(@, [call |-> "textChat.rejected", message |-> msg])]
  /\ outcome' = [outcome EXCEPT ![i] = CallerOnThrow(i, msg)]
  /\ UNCHANGED <<app, entry, args, client>>

Next ==
  \/ \E cfg \in Configs : Install(cfg)
  \/ AddTools
  \/ \E i \in Invocations, topic \in Topics, prompt \in Prompts : Execute(i, topic, prompt)
  \/ \E i \in Invocations : GetClientResolve(i)
  \/ \E i \in Invocations, msg \in RegistryErrors : GetClientReject(i, msg)
  \/ \E i \in Invocations, r \in Responses, failing \in SinkFailures :
       TextChatResolve(i, r.research, r.usage, failing)
  \/ \E i \in Invocations, msg \in ChatErrors : TextChatReject(i, msg)

Spec == Init /\ [][Next]_vars

(***************************************************************************)
(* Both entry points: the research_run tool and the scripting function     *)
(* "research", over the inputs and answers named below.                    *)
(***************************************************************************)
EntryTopics == {JsUndefined, JsString("Quantum Computing")}

EntryPrompts == {JsString(""), JsString("latest breakthroughs")}

NextEntry ==
  \/ \E cfg \in Configs : Install(cfg)
  \/ AddTools
  \/ RegisterFunction
  \/ \E i \in Invocations, topic \in EntryTopics, prompt \in EntryPrompts :
       Execute(i, topic, prompt)
  \/ \E i \in Invocations, topic \in EntryTopics, prompt \in EntryPrompts :
       ScriptExecute(i, topic, prompt)
  \/ \E i \in Invocations : GetClientResolve(i)
  \/ \E i \in Invocations, msg \in RegistryErrors : GetClientReject(i, msg)
  \/ \E i \in Invocations, r \in Responses, failing \in SinkFailures :
       TextChatResolve(i, r.research, r.usage, failing)
  \/ \E i \in Invocations, msg \in ChatErrors : TextChatReject(i, msg)

SpecEntry == Init /\ [][NextEntry]_vars

(***************************************************************************)
(* The tool under the assumption that every collaborator call that is      *)
(* awaited eventually resolves or rejects, over the inputs named above.    *)
(***************************************************************************)
GetClientSettles(i) ==
  GetClientResolve(i) \/ \E msg \in RegistryErrors : GetClientReject(i, msg)

TextChatSettles(i) ==
  \/ \E r \in Responses, failing \in SinkFailures :
       TextChatResolve(i, r.research, r.usage, failing)
  \/ \E msg \in ChatErrors : TextChatReject(i, msg)

NextFair ==
  \/ \E cfg \in Configs : Install(cfg)
  \/ AddTools
  \/ \E i \in Invocations, topic \in EntryTopics, prompt \in EntryPrompts :
       Execute(i, topic, prompt)
  \/ \E i \in Invocations : GetClientSettles(i)
  \/ \E i \in Invocations : TextChatSettles(i)

SpecFair ==
  /\ Init
  /\ [][NextFair]_vars
  /\ \A i \in Invocations :
       WF_vars(GetClientSettles(i)) /\ WF_vars(TextChatSettles(i))

(***************************************************************************)
(* Properties                                                              *)
(***************************************************************************)
Started(i) == pc[i] # "idle"

\* The invocation was given a missing or empty topic or prompt.
InvalidInput(i) == Falsy(args[i].topic) \/ Falsy(args[i].prompt)

\* The entries of invocation i's log of one kind, in order.
CallsOf(i, kind) == SelectSeq(calls[i], LAMBDA c : c.call = kind)

Has(i, kind) == CallsOf(i, kind) # <<>>

\* The text invocation i's textChat resolved with.
ResolvedText(i) == CallsOf(i, "textChat.resolved")[1].research

\* An artifactOutput or outputChatAnalytics call of invocation i threw.
SinkThrew(i) ==
  \E k \in 1..Len(calls[i]) :
    /\ calls[i][k].call \in {"artifactOutput", "outputChatAnalytics"}
    /\ calls[i][k].threw

\* C1: an invocation whose topic or prompt is missing or empty is rejected, and
\* at no point of it is the registry asked for a client or textChat called.
C1_InvalidInputNoClientCall ==
  \A i \in Invocations :
    Started(i) /\ InvalidInput(i) =>
      /\ pc[i] = "done"
      /\ ~(outcome[i].kind = "returned" /\ outcome[i].value.status = "completed")
      /\ ~Has(i, "getClient")
      /\ ~Has(i, "textChat")

C1_Witness ==
  \E i \in Invocations :
    /\ researchService.present
    /\ pc[i] = "done"
    /\ ~Falsy(args[i].topic)
    /\ Falsy(args[i].prompt)
    /\ calls[i] = <<>>

\* C2: a validation failure is thrown to the caller, never returned as a result
\* value, and it is thrown before the invocation makes any external call.
C2_ValidationThrows ==
  \A i \in Invocations :
    Started(i) /\ InvalidInput(i) =>
      /\ outcome[i].kind = "thrown"
      /\ calls[i] = <<>>
      /\ researchService.present =>
           outcome[i].error.message \in
             {"[research_run] Error: Topic is required",
              "[research_run] Error: Prompt is required"}

C2_Witness ==
  \E i \in Invocations :
    /\ researchService.present
    /\ args[i].topic = JsUndefined
    /\ outcome[i] = Thrown("[research_run] Error: Topic is required")

C4_ErrorResultOnChatFailure ==
  \A i \in Invocations :
    pc[i] = "done" /\ Has(i, "textChat.rejected") =>
      outcome[i] =
        Returned([status |-> "error",
                  topic |-> args[i].topic,
                  error |-> CallsOf(i, "textChat.rejected")[1].message,
                  message |-> "Failed to generate research for topic: "
                                \o args[i].topic.val])

\* C5: every chat request dispatched has exactly two messages, a system message
\* and then a user message whose content is the template with the topic and the
\* prompt inserted verbatim.
C5_TwoMessagePayload ==
  \A i \in Invocations :
    \A k \in 1..Len(calls[i]) :
      calls[i][k].call = "textChat" =>
        LET m == calls[i][k].request.messages
        IN /\ Len(m) = 2
           /\ m[1].role = "system"
           /\ m[2].role = "user"
           /\ m[2].content =
                "Research the following topic: " \o args[i].topic.val
                  \o ", focusing on the following question: " \o args[i].prompt.val

C5_Witness ==
  \E i \in Invocations :
    /\ Has(i, "textChat")
    /\ CallsOf(i, "textChat")[1].request.messages[2].content =
         "Research the following topic: a \"b\" & <c>, d, focusing on the following question: why \\n?"

\* C6: every registry lookup is made with the configured researchModel, whatever
\* its outcome; no lookup with another identifier is made.
C6_ConfiguredModelOnly ==
  \A i \in Invocations :
    \A k \in 1..Len(calls[i]) :
      calls[i][k].call = "getClient" =>
        /\ researchService.present
        /\ calls[i][k].modelId = researchService.options.researchModel

C6_Witness ==
  \E i, j \in Invocations :
    /\ researchService.present
    /\ researchService.options.researchModel = "sonar-deep-research"
    /\ Has(i, "getClient.rejected")
    /\ CallsOf(i, "getClient")[1].modelId = "sonar-deep-research"
    /\ pc[j] = "textChat"
    /\ client[j].modelId = "sonar-deep-research"

\* C7: under any interleaving of concurrent invocations, the user message, the
\* notifications, the artifact and the result of each invocation carry its own
\* topic and prompt and the text its own textChat call resolved with.
C7_NoInterference ==
  \A i \in Invocations :
    /\ \A k \in 1..Len(calls[i]) :
         LET c == calls[i][k]
         IN /\ c.call = "textChat" =>
                 c.request.messages[2].content =
                   "Research the following topic: " \o args[i].topic.val
                     \o ", focusing on the following question: " \o args[i].prompt.val
            /\ c.call = "infoMessage" =>
                 c.message \in
                   {"[Research] Dispatching research request for \"" \o args[i].topic.val
                      \o "\" to " \o client[i].modelId,
                    "[research_run] Successfully generated research for \""
                      \o args[i].topic.val \o "\""}
            /\ c.call = "artifactOutput" =>
                 /\ c.artifact.name = "Research on " \o args[i].topic.val
                 /\ c.artifact.body =
                      "Topic: " \o args[i].topic.val \o "\nPrompt: " \o args[i].prompt.val
                        \o "\n\nResult: " \o ResolvedText(i)
    /\ outcome[i].kind = "returned" =>
         /\ outcome[i].value.topic = args[i].topic
         /\ outcome[i].value.research = ResolvedText(i)

\* Invocation 1 starts before invocation 2 and is still awaiting textChat when
\* invocation 2, given another topic and prompt, has returned.
C7_Witness ==
  /\ MaxInv >= 2
  /\ pc[1] = "textChat"
  /\ outcome[2].kind = "returned"
  /\ args[1].topic # args[2].topic
  /\ args[1].prompt # args[2].prompt

\* C8: an invocation makes at most one registry lookup and at most one textChat
\* call, and one that was given valid inputs and a client makes exactly one
\* textChat call, also when the same topic and prompt were answered before.
C8_SingleAttempt ==
  \A i \in Invocations :
    /\ Len(CallsOf(i, "getClient")) <= 1
    /\ Len(CallsOf(i, "textChat")) <= 1
    /\ Started(i) /\ ~InvalidInput(i) /\ researchService.present =>
         Len(CallsOf(i, "getClient")) = 1
    /\ client[i] # NoClient => Len(CallsOf(i, "textChat")) = 1
    /\ outcome[i].kind = "returned" =>
         Len(CallsOf(i, "textChat.resolved")) = 1

C8_Witness ==
  \E i, j \in Invocations :
    /\ i # j
    /\ args[i] = args[j]
    /\ outcome[i].kind = "returned"
    /\ pc[j] = "done"
    /\ Has(j, "textChat.rejected")
    /\ Len(CallsOf(j, "textChat")) = 1

\* C9 as stated: when the registry has no online client for the configured
\* identifier, textChat is never called and the invocation returns a structured
\* {status: "error", ...} result.
C9_ErrorResultOnNoClient ==
  \A i \in Invocations :
    pc[i] = "done" /\ Has(i, "getClient.rejected") =>
      /\ ~Has(i, "textChat")
      /\ outcome[i].kind = "returned"
      /\ outcome[i].value.status = "error"

\* The outcome of a finished invocation: the full text of its textChat, or an
\* error that carries no research text.
C10_Outcome ==
  \A i \in Invocations :
    /\ (pc[i] = "done") = (outcome[i] # Pending)
    /\ pc[i] = "done" =>
         \/ /\ outcome[i].kind = "returned"
            /\ outcome[i].value.status = "completed"
            /\ Has(i, "textChat.resolved")
            /\ outcome[i].value.research = ResolvedText(i)
         \/ /\ outcome[i].kind = "thrown"
            /\ DOMAIN outcome[i] = {"kind", "error"}
            /\ DOMAIN outcome[i].error = {"message"}

\* The steps of an invocation: validation, then the lookup, then the chat
\* request, then the one outcome, which never changes afterwards.
C10_Step ==
  \A i \in Invocations :
    /\ pc'[i] # pc[i] =>
         <<pc[i], pc'[i]>> \in {<<"idle", "done">>, <<"idle", "getClient">>,
                                <<"getClient", "done">>, <<"getClient", "textChat">>,
                                <<"textChat", "done">>}
    /\ outcome[i] # Pending => outcome'[i] = outcome[i]

\* C10: every invocation goes validate -> dispatch -> (success | failure) and
\* ends in exactly one outcome: the full, unmodified text of textChat, or an
\* error, and an invocation that ends in an error delivered no research text.
C10_TwoOutcomes == []C10_Outcome /\ [][C10_Step]_vars

C10_Witness ==
  \E i, j \in Invocations :
    /\ outcome[i].kind = "returned"
    /\ outcome[j].kind = "thrown"
    /\ Has(j, "textChat.resolved")
    /\ SinkThrew(j)

IsAnswer(c) ==
  c.call \in {"getClient.resolved", "getClient.rejected",
              "textChat.resolved", "textChat.rejected"}

\* Two entries that differ because the environment answered differently.
AnsweredDifferently(a, b) ==
  \/ IsAnswer(a) /\ IsAnswer(b)
  \/ /\ a.call = b.call
     /\ a.call \in {"artifactOutput", "outputChatAnalytics"}
     /\ a.threw # b.threw

\* Finished invocations i (tool) and j (script) made the same collaborator calls
\* and ended alike, unless the environment answered them differently.
SameBehaviour(i, j) ==
  LET n == IF Len(calls[i]) < Len(calls[j]) THEN Len(calls[i]) ELSE Len(calls[j])
      differ == {k \in 1..n : calls[i][k] # calls[j][k]}
  IN IF differ # {}
       THEN LET k == CHOOSE d \in differ : \A e \in differ : d <= e
            IN AnsweredDifferently(calls[i][k], calls[j][k])
       ELSE /\ calls[i] = calls[j]
            /\ (outcome[j].kind = "returned") = (outcome[i].kind = "returned")
            /\ outcome[j].kind = "returned" =>
                 /\ outcome[i].value.status = "completed"
                 /\ outcome[j].value = [type |-> "string", val |-> outcome[i].value.research]

\* C12 as stated: for every topic and prompt, missing and empty ones included,
\* and every behaviour of the registry and the chat client, the tool and the
\* scripting function make the same collaborator calls, and the scripting
\* function returns R exactly when the tool returns a completed result with R.
C12_EntryPointsEquivalent ==
  \A i, j \in Invocations :
    /\ entry[i] = "tool" /\ entry[j] = "script"
    /\ args[i] = args[j]
    /\ pc[i] = "done" /\ pc[j] = "done"
    => SameBehaviour(i, j)

\* C13: a validation error names the missing field: the topic when the topic is
\* missing or empty (also when the prompt is missing too, the topic being
\* checked first), the prompt when only the prompt is missing or empty.
C13_ErrorNamesField ==
  \A i \in Invocations :
    entry[i] = "tool" /\ researchService.present =>
      /\ Falsy(args[i].topic) =>
           outcome[i] = Thrown("[research_run] Error: Topic is required")
      /\ ~Falsy(args[i].topic) /\ Falsy(args[i].prompt) =>
           outcome[i] = Thrown("[research_run] Error: Prompt is required")

C13_Witness ==
  \E i, j \in Invocations :
    /\ args[i] = [topic |-> JsString(""), prompt |-> JsUndefined]
    /\ outcome[i] = Thrown("[research_run] Error: Topic is required")
    /\ args[j] = [topic |-> JsString("Quantum Computing"), prompt |-> JsString("")]
    /\ outcome[j] = Thrown("[research_run] Error: Prompt is required")

\* The researchModel of the service is the one of the configuration install got.
C14_SetAtConstruction ==
  researchService.present =>
    /\ "researchModel" \in DOMAIN config.research
    /\ researchService.options.researchModel = config.research.researchModel

\* No step changes the service once it is there.
C14_NeverChanged == researchService.present => researchService' = researchService

\* C14: researchModel is set when the ResearchService is constructed and never
\* changes: in every reachable state it is the value given at construction.
C14_ResearchModelImmutable == []C14_SetAtConstruction /\ [][C14_NeverChanged]_vars

C14_Witness ==
  \E i, j \in Invocations :
    /\ researchService.present
    /\ researchService.options.researchModel = "sonar-deep-research"
    /\ outcome[i].kind = "returned"
    /\ outcome[j].kind = "thrown"
    /\ Has(j, "getClient.rejected")

\* The positions of invocation i's log that hold an entry of one kind.
PositionsOf(i, kind) == {k \in 1..Len(calls[i]) : calls[i][k].call = kind}

\* The positions of the dispatch message and of the success message.
DispatchPositions(i) ==
  {k \in PositionsOf(i, "infoMessage") :
     calls[i][k].message =
       "[Research] Dispatching research request for \"" \o args[i].topic.val
         \o "\" to " \o client[i].modelId}

SuccessPositions(i) ==
  {k \in PositionsOf(i, "infoMessage") :
     calls[i][k].message =
       "[research_run] Successfully generated research for \""
         \o args[i].topic.val \o "\""}

\* C15: within an invocation the dispatch message is emitted before textChat is
\* called; the success message and the artifact are emitted only after textChat
\* resolved and before the result is returned; when the lookup or textChat
\* fails, neither the success message nor the artifact is emitted.
C15_EventOrder ==
  \A i \in Invocations :
    /\ \A t \in PositionsOf(i, "textChat") :
         \E d \in DispatchPositions(i) : d < t
    /\ \A e \in SuccessPositions(i) \cup PositionsOf(i, "artifactOutput") :
         \E r \in PositionsOf(i, "textChat.resolved") : r < e
    /\ outcome[i].kind = "returned" =>
         /\ SuccessPositions(i) # {}
         /\ PositionsOf(i, "artifactOutput") # {}
    /\ Has(i, "getClient.rejected") \/ Has(i, "textChat.rejected") =>
         /\ SuccessPositions(i) = {}
         /\ PositionsOf(i, "artifactOutput") = {}

C15_Witness ==
  \E i, j \in Invocations :
    /\ outcome[i].kind = "returned"
    /\ DispatchPositions(i) # {}
    /\ SuccessPositions(i) # {}
    /\ PositionsOf(i, "artifactOutput") # {}
    /\ Has(j, "textChat.rejected")
    /\ DispatchPositions(j) # {}
    /\ pc[j] = "done"

\* An invocation is suspended on a collaborator call.
Awaiting(i) == pc[i] \in {"getClient", "textChat"}

\* A suspended invocation moves on only with the answer to the call it awaits.
C16_OnlySettlement ==
  \A i \in Invocations :
    Awaiting(i) /\ pc'[i] # pc[i] =>
      /\ Len(calls'[i]) > Len(calls[i])
      /\ calls'[i][Len(calls[i]) + 1].call \in
           {pc[i] \o ".resolved", pc[i] \o ".rejected"}

\* C16: the handler has no timeout or cancellation of its own: a suspended
\* invocation moves on only when the awaited call resolves or fails, and, every
\* awaited call eventually resolving or failing, every invocation terminates.
C16_NoTimeoutTerminates ==
  /\ [][C16_OnlySettlement]_vars
  /\ \A i \in Invocations : Awaiting(i) ~> (pc[i] = "done")

C16_Witness ==
  \E i, j \in Invocations :
    /\ pc[i] = "done"
    /\ Has(i, "getClient.resolved")
    /\ Has(i, "textChat.resolved")
    /\ pc[j] = "getClient"

\* C17: install registers the tool and the scripting function with or without
\* a research configuration, and adds a ResearchService only with one; without
\* one every invocation, by either entry point, fails at the ResearchService
\* lookup and makes no registry lookup and no textChat call.
C17_NoConfigNoService ==
  /\ installed =>
       /\ researchService.present = ("researchModel" \in DOMAIN config.research)
       /\ name \notin tools => ENABLED AddTools
       /\ "research" \notin functions => ENABLED RegisterFunction
  /\ ~researchService.present =>
       \A i \in Invocations :
         Started(i) =>
           /\ pc[i] = "done"
           /\ outcome[i] = Thrown("ResearchService not found")
           /\ calls[i] = <<>>

C17_Witness ==
  \E i, j \in Invocations :
    /\ config = [research |-> JsUndefined]
    /\ name \in tools
    /\ "research" \in functions
    /\ entry[i] = "tool" /\ outcome[i].kind = "thrown"
    /\ entry[j] = "script" /\ outcome[j].kind = "thrown"
    /\ ~Falsy(args[j].topic) /\ ~Falsy(args[j].prompt)

\* C18: an invocation emits at most one artifact, named "Research on <topic>",
\* with encoding text, mimeType text/markdown and a body holding the topic, the
\* prompt and the text of textChat; an artifactOutput or outputChatAnalytics
\* that throws after textChat resolved ends the invocation in an error.
C18_ArtifactAndSinkFailure ==
  \A i \in Invocations :
    /\ Len(CallsOf(i, "artifactOutput")) <= 1
    /\ \A k \in PositionsOf(i, "artifactOutput") :
         calls[i][k].artifact =
           [name |-> "Research on " \o args[i].topic.val,
            encoding |-> "text",
            mimeType |-> "text/markdown",
            body |-> "Topic: " \o args[i].topic.val \o "\nPrompt: "
                       \o args[i].prompt.val \o "\n\nResult: " \o ResolvedText(i)]
    /\ pc[i] = "done" /\ SinkThrew(i) =>
         /\ Has(i, "textChat.resolved")
         /\ outcome[i].kind = "thrown"

C18_Witness ==
  \E i, j \in Invocations :
    /\ pc[i] = "done" /\ pc[j] = "done"
    /\ \E k \in PositionsOf(i, "artifactOutput") : calls[i][k].threw
    /\ \E k \in PositionsOf(j, "outputChatAnalytics") : calls[j][k].threw
    /\ outcome[i].kind = "thrown"
    /\ outcome[j].kind = "thrown"

====
